---- MODULE Spec2Model ----
(***************************************************************************)
(* A model of src/main.py of nba-injuries-api: the active-players cache    *)
(* (_load_active_players), the player resolver (_search_bdl_best_player)   *)
(* and the per-player aggregation (injuries_by_player) with its adapters.  *)
(*                                                                         *)
(* Three specifications share the variables:                               *)
(*   Spec          concurrent callers of _load_active_players              *)
(*   SpecResolver  one call of _search_bdl_best_player                     *)
(*   SpecAgg       one call of injuries_by_player                          *)
(* The variables a specification does not use keep their initial value.    *)
(***************************************************************************)
EXTENDS Integers, Sequences, FiniteSets, TLC

(***************************************************************************)
(* Bounds of the model.                                                    *)
(***************************************************************************)
\* number of request threads calling _load_active_players
NumCallers == 2
\* total number of calls of _load_active_players in one behaviour
MaxCalls == 3
\* largest number of pages of /v1/players/active
MaxPages == 2
\* longest name given to the resolver, in characters
MaxNameLen == 3
\* largest number of players in one search response
MaxData == 2

(***************************************************************************)
(* Strings are sequences of one-character strings over the ASCII letters,  *)
(* the space and punctuation, and one letter with a diacritic: "c'" is the *)
(* character U+0107 (c with acute) and "C'" is U+0106, its uppercase.      *)
(***************************************************************************)
LowerLetters ==
    <<"a", "b", "c", "d", "e", "f", "g", "h", "i", "j", "k", "l", "m",
      "n", "o", "p", "q", "r", "s", "t", "u", "v", "w", "x", "y", "z", "c'">>
UpperLetters ==
    <<"A", "B", "C", "D", "E", "F", "G", "H", "I", "J", "K", "L", "M",
      "N", "O", "P", "Q", "R", "S", "T", "U", "V", "W", "X", "Y", "Z", "C'">>

LowerChars == {LowerLetters[i] : i \in 1..Len(LowerLetters)}
UpperChars == {UpperLetters[i] : i \in 1..Len(UpperLetters)}

\* str.islower() / str.isupper() / str.isspace() of one character
IsLowerChar(c) == c \in LowerChars
IsUpperChar(c) == c \in UpperChars
IsSpaceChar(c) == c = " "

\* str.lower() / str.upper() of one character
LowerChar(c) ==
    IF c \in UpperChars THEN LowerLetters[CHOOSE i \in 1..Len(UpperLetters) : UpperLetters[i] = c]
    ELSE c
UpperChar(c) ==
    IF c \in LowerChars THEN UpperLetters[CHOOSE i \in 1..Len(LowerLetters) : LowerLetters[i] = c]
    ELSE c

\* str.lower() / str.upper()
LowerStr(s) == [i \in 1..Len(s) |-> LowerChar(s[i])]
UpperStr(s) == [i \in 1..Len(s) |-> UpperChar(s[i])]

RECURSIVE LStrip(_)
LStrip(s) == IF s # <<>> /\ IsSpaceChar(Head(s)) THEN LStrip(Tail(s)) ELSE s

RECURSIVE RStrip(_)
RStrip(s) ==
    IF s # <<>> /\ IsSpaceChar(s[Len(s)]) THEN RStrip(SubSeq(s, 1, Len(s) - 1)) ELSE s

\* str.strip()
Strip(s) == RStrip(LStrip(s))

\* the first whitespace-free run of a string with no leading whitespace
RECURSIVE FirstToken(_)
FirstToken(s) ==
    IF s = <<>> \/ IsSpaceChar(Head(s)) THEN <<>> ELSE <<Head(s)>> \o FirstToken(Tail(s))

\* str.split(): the whitespace-separated tokens, none of them empty
RECURSIVE Split(_)
Split(s) ==
    LET t == LStrip(s)
        tok == FirstToken(t)
    IN  IF t = <<>> THEN <<>>
        ELSE <<tok>> \o Split(SubSeq(t, Len(tok) + 1, Len(t)))

\* " ".join(tokens)
RECURSIVE JoinSpace(_)
JoinSpace(toks) ==
    IF toks = <<>> THEN <<>>
    ELSE IF Len(toks) = 1 THEN toks[1]
    ELSE toks[1] \o <<" ">> \o JoinSpace(Tail(toks))

\* needle in hay
Contains(hay, needle) ==
    \E i \in 0..(Len(hay) - Len(needle)) : SubSeq(hay, i + 1, i + Len(needle)) = needle

\* f"{first} {last}"
FirstSpaceLast(first, last) == first \o <<" ">> \o last

(***************************************************************************)
(* Players as the Roster-API (BallDontLie) returns them.  A field that is  *)
(* missing, null or "" is the empty string: the code reads every name      *)
(* through `x or ""` / `if not full_name`, which do not tell them apart.   *)
(* p.get("id") of a player without an id is None, modelled as NoneId,      *)
(* which no player with an id carries.  position and team are copied       *)
(* through unread and are left out.                                        *)
(***************************************************************************)
NoneId == 0

Player(id, full, first, last) ==
    [id |-> id, full_name |-> full, first_name |-> first, last_name |-> last]

\* "A b", named by first_name and last_name as the API does
PlayerAb == Player(1, <<>>, <<"A">>, <<"b">>)
\* "aB", one name with a capital inside, a player without an id
PlayerMono == Player(NoneId, <<"a", "B">>, <<>>, <<>>)
\* a second player whose name normalizes to "a b", also without an id
PlayerAb2 == Player(NoneId, <<"a", " ", "b">>, <<>>, <<>>)

Players == {PlayerAb, PlayerMono, PlayerAb2}

(***************************************************************************)
(* _get_balldontlie_api_key and _call_balldontlie: the outcomes of one     *)
(* call.  Without a key the call raises HTTPException(500) before any      *)
(* request; with one it sends exactly one request, which ends in a         *)
(* requests.RequestException (502), a non-200 status or a 200 response.    *)
(***************************************************************************)
\* _get_balldontlie_api_key raises iff os.getenv gives None or ""
GetApiKeyRaises(key) == ~key

\* _call_balldontlie without the call of _get_balldontlie_api_key
CallOutcomesNoKeyCheck(key) == {"ok", "network_error", "http_error"}

CallOutcomes(key) ==
    IF GetApiKeyRaises(key) THEN {"config_error"}
    ELSE {"ok", "network_error", "http_error"}

\* does a call with this outcome send an HTTP request
SendsRequest(outcome) == outcome # "config_error"

\* the status code of the HTTPException raised; 200 when none is raised
StatusOf(outcome) ==
    CASE outcome = "config_error" -> 500
      [] outcome = "network_error" -> 502
      [] outcome = "http_error" -> 503
      [] OTHER -> 200

(***************************************************************************)
(* Text literals of the source, as strings of the model.                   *)
(***************************************************************************)
T_NAME == <<"N", "A", "M", "E">>
T_POS == <<"P", "O", "S">>
T_EST_RETURN_DATE == <<"E", "S", "T", ".", " ", "R", "E", "T", "U", "R", "N", " ", "D", "A", "T", "E">>
T_STATUS == <<"S", "T", "A", "T", "U", "S">>
T_COMMENT == <<"C", "O", "M", "M", "E", "N", "T">>
T_Player == <<"P", "l", "a", "y", "e", "r">>
T_Position == <<"P", "o", "s", "i", "t", "i", "o", "n">>
T_Updated == <<"U", "p", "d", "a", "t", "e", "d">>
T_Injury == <<"I", "n", "j", "u", "r", "y">>
T_Injury_Status == <<"I", "n", "j", "u", "r", "y", " ", "S", "t", "a", "t", "u", "s">>
T_PLAYER == <<"P", "L", "A", "Y", "E", "R">>
T_Pos == <<"P", "o", "s">>
T_Date == <<"D", "a", "t", "e">>
T_DATE == <<"D", "A", "T", "E">>
T_INJURY == <<"I", "N", "J", "U", "R", "Y">>
T_Injuries == <<"I", "n", "j", "u", "r", "i", "e", "s">>
T_INJURIES == <<"I", "N", "J", "U", "R", "I", "E", "S">>
T_Out == <<"O", "u", "t">>
T_PG == <<"P", "G">>
T_Team == <<"H", "e", "a", "t">>
T_x == <<"x">>

(***************************************************************************)
(* The HTML adapters.  A page, as BeautifulSoup presents it to the parsers,*)
(* is a sequence of tables; a table has the texts of its th cells          *)
(* (headers) and, per tr, the texts of its td cells (rows), each already   *)
(* stripped by get_text(strip=True).  The NBC page is the sequence of its  *)
(* non-blank text lines.                                                   *)
(***************************************************************************)
\* one fetch of a page (_fetch_espn_html, _fetch_nbc_html, _fetch_cbs_html):
\* a requests.RequestException (502), a non-200 status, or the page
FetchOutcomes == {"ok", "network_error", "http_error"}

\* h in headers
InSeq(x, seq) == \E i \in 1..Len(seq) : seq[i] = x

\* headers.index(h), counted from 1
IndexOf(x, seq) == CHOOSE i \in 1..Len(seq) : seq[i] = x /\ \A j \in 1..(i - 1) : seq[j] # x

\* all(h in headers for h in wanted)
AllIn(wanted, headers) == \A i \in 1..Len(wanted) : InSeq(wanted[i], headers)

\* the result of a parser: the list built, or an uncaught IndexError
Parsed(records) == [ok |-> TRUE, records |-> records]
ParseCrash == [ok |-> FALSE, records |-> <<>>]

EspnWanted == <<T_NAME, T_POS, T_EST_RETURN_DATE, T_STATUS, T_COMMENT>>

\* lines 389-412 for one row: "skip", "crash" (a cell index past the row) or the record
EspnRow(headers, cells) ==
    LET idx == [k \in 1..5 |-> IndexOf(EspnWanted[k], headers)]
    IN  IF Len(cells) < 5 THEN [kind |-> "skip"]
        ELSE IF \E k \in 1..5 : idx[k] > Len(cells) THEN [kind |-> "crash"]
        ELSE IF cells[idx[1]] = <<>> \/ UpperStr(cells[idx[1]]) = T_NAME THEN [kind |-> "skip"]
        ELSE [kind |-> "rec",
              rec |-> [player_name |-> cells[idx[1]], position |-> cells[idx[2]],
                       est_return_date |-> cells[idx[3]], status |-> cells[idx[4]],
                       comment |-> cells[idx[5]], source |-> "espn"]]

RECURSIVE EspnRows(_, _, _)
EspnRows(headers, rows, acc) ==
    IF rows = <<>> THEN Parsed(acc)
    ELSE LET r == EspnRow(headers, Head(rows))
         IN  IF r.kind = "crash" THEN ParseCrash
             ELSE IF r.kind = "skip" THEN EspnRows(headers, Tail(rows), acc)
             ELSE EspnRows(headers, Tail(rows), Append(acc, r.rec))

\* lines 373-414 with `break` for the `continue` of lines 377 and 381
RECURSIVE EspnTablesStopAtLacking(_, _)
EspnTablesStopAtLacking(tables, acc) ==
    IF tables = <<>> THEN Parsed(acc)
    ELSE LET t == Head(tables)
         IN  IF t.headers = <<>> \/ ~AllIn(EspnWanted, t.headers)
             THEN Parsed(acc)
             ELSE LET r == EspnRows(t.headers, t.rows, acc)
                  IN  IF r.ok THEN EspnTablesStopAtLacking(Tail(tables), r.records)
                      ELSE ParseCrash

\* lines 373-414, over the tables that are left
RECURSIVE EspnTables(_, _)
EspnTables(tables, acc) ==
    IF tables = <<>> THEN Parsed(acc)
    ELSE LET t == Head(tables)
         IN  IF t.headers = <<>> \/ ~AllIn(EspnWanted, t.headers)
             THEN EspnTables(Tail(tables), acc)
             ELSE LET r == EspnRows(t.headers, t.rows, acc)
                  IN  IF r.ok THEN EspnTables(Tail(tables), r.records) ELSE ParseCrash

\* _parse_espn_injuries
ParseEspn(page) == EspnTables(page, <<>>)

\* the first i with s[i-1].islower() and s[i].isupper(), counted from 1; 0 when none
SplitIdx(s) ==
    LET hits == {i \in 2..Len(s) : IsLowerChar(s[i - 1]) /\ IsUpperChar(s[i])}
    IN  IF hits = {} THEN 0 ELSE CHOOSE i \in hits : \A j \in hits : i <= j

\* _clean_cbs_player_name keeping s[:split_idx] instead of s[split_idx:]
CleanCbsPlayerNamePrefix(raw) ==
    LET s == Strip(raw)
        i == SplitIdx(s)
        full == IF i = 0 THEN <<>> ELSE Strip(SubSeq(s, 1, i - 1))
    IN  IF full # <<>> THEN full ELSE s

\* _clean_cbs_player_name
CleanCbsPlayerName(raw) ==
    LET s == Strip(raw)
        i == SplitIdx(s)
        full == IF i = 0 THEN <<>> ELSE Strip(SubSeq(s, i, Len(s)))
    IN  IF full # <<>> THEN full ELSE s

CbsWanted == <<T_Player, T_Position, T_Updated, T_Injury, T_Injury_Status>>

\* lines 647-671 for one row
CbsRow(headers, cells) ==
    LET idx == [k \in 1..5 |-> IndexOf(CbsWanted[k], headers)]
    IN  IF Len(cells) < 5 THEN [kind |-> "skip"]
        ELSE IF \E k \in 1..5 : idx[k] > Len(cells) THEN [kind |-> "crash"]
        ELSE LET name == CleanCbsPlayerName(cells[idx[1]])
             IN  IF name = <<>> \/ UpperStr(name) = T_PLAYER THEN [kind |-> "skip"]
                 ELSE [kind |-> "rec",
                       rec |-> [player_name |-> name, position |-> cells[idx[2]],
                                updated |-> cells[idx[3]], injury |-> cells[idx[4]],
                                status |-> cells[idx[5]], source |-> "cbs"]]

RECURSIVE CbsRows(_, _, _)
CbsRows(headers, rows, acc) ==
    IF rows = <<>> THEN Parsed(acc)
    ELSE LET r == CbsRow(headers, Head(rows))
         IN  IF r.kind = "crash" THEN ParseCrash
             ELSE IF r.kind = "skip" THEN CbsRows(headers, Tail(rows), acc)
             ELSE CbsRows(headers, Tail(rows), Append(acc, r.rec))

RECURSIVE CbsTables(_, _)
CbsTables(tables, acc) ==
    IF tables = <<>> THEN Parsed(acc)
    ELSE LET t == Head(tables)
         IN  IF t.headers = <<>> \/ ~AllIn(CbsWanted, t.headers)
             THEN CbsTables(Tail(tables), acc)
             ELSE LET r == CbsRows(t.headers, t.rows, acc)
                  IN  IF r.ok THEN CbsTables(Tail(tables), r.records) ELSE ParseCrash

\* _parse_cbs_injuries
ParseCbs(page) == CbsTables(page, <<>>)

\* header_tokens and positions (lines 487-492)
NbcHeaderTokens == {T_PLAYER, T_Pos, T_POS, T_Date, T_DATE, T_Injury, T_INJURY}
NbcPositions ==
    {<<"P", "G">>, <<"S", "G">>, <<"S", "F">>, <<"P", "F">>, <<"C">>, <<"G">>,
     <<"F">>, <<"G", "-", "F">>, <<"F", "-", "G">>, <<"G", "/", "F">>, <<"F", "/", "C">>, <<"C", "/", "F">>}

\* looks_like_team_header (lines 497-511); i counts from 1
LooksLikeTeamHeader(lines, i) ==
    IF i + 3 >= Len(lines) THEN FALSE
    ELSE /\ Strip(lines[i]) \notin NbcHeaderTokens
         /\ Strip(lines[i + 1]) \in {T_PLAYER, T_Player}
         /\ Strip(lines[i + 2]) \in {T_POS, T_Pos}
         /\ Strip(lines[i + 3]) \in {T_DATE, T_Date}
         /\ Strip(lines[i + 4]) \in {T_INJURY, T_Injury}

\* the while loop of lines 513-556; i counts from 1, team is None or Some(name)
RECURSIVE NbcScan(_, _, _, _)
NbcScan(lines, i, team, acc) ==
    IF ~(i - 1 < Len(lines) - 5) THEN acc
    ELSE IF LooksLikeTeamHeader(lines, i) THEN NbcScan(lines, i + 5, <<Strip(lines[i])>>, acc)
    ELSE IF team = <<>> THEN NbcScan(lines, i + 1, team, acc)
    ELSE IF i + 3 >= Len(lines) THEN acc
    ELSE LET name == Strip(lines[i])
             pos == Strip(lines[i + 1])
             date == Strip(lines[i + 2])
             injury == Strip(lines[i + 3])
             desc == Strip(lines[i + 4])
         IN  IF name \in NbcHeaderTokens \/ pos \in NbcHeaderTokens
                \/ date \in NbcHeaderTokens \/ injury \in NbcHeaderTokens
             THEN NbcScan(lines, i + 1, team, acc)
             ELSE IF pos \notin NbcPositions THEN NbcScan(lines, i + 1, team, acc)
             ELSE NbcScan(lines, i + 5, team,
                          Append(acc, [player_name |-> name, position |-> pos,
                                       date |-> date, injury |-> injury,
                                       description |-> desc, team |-> team[1],
                                       source |-> "nbc"]))

\* _parse_nbc_injuries
ParseNbc(lines) ==
    IF InSeq(T_Injuries, lines) THEN NbcScan(lines, IndexOf(T_Injuries, lines), <<>>, <<>>)
    ELSE IF InSeq(T_INJURIES, lines) THEN NbcScan(lines, IndexOf(T_INJURIES, lines), <<>>, <<>>)
    ELSE <<>>

\* [item for item in all if query_lower in item["player_name"].lower()]
MatchesOf(all, query_lower) ==
    LET Hit(item) == Contains(LowerStr(item.player_name), query_lower)
    IN  SelectSeq(all, Hit)

(***************************************************************************)
(* State.                                                                  *)
(***************************************************************************)
VARIABLES
    \* os.getenv("BALLDONTLIE_API_KEY") is set and non-empty
    apiKey,
    \* the pages of /v1/players/active the upstream serves, in cursor order
    roster,
    \* the module globals of the cache
    ACTIVE_PLAYERS,
    ACTIVE_PLAYERS_LOADED,
    \* per caller of _load_active_players: position, and the locals players, cursor
    pc,
    players,
    cursor,
    \* calls of _load_active_players begun so far
    callsMade,
    \* history: per page, the callers that sent a request for it
    requestedBy,
    \* history: the callers that assigned ACTIVE_PLAYERS
    populatedBy,
    \* history: the callers whose call ran to its end and set the flag
    completedBy,
    \* history: some call has raised
    everRaised,
    \* history, per caller: the running call began after a completed load
    callAfter,
    \* history, per caller: requests sent by the running call
    reqsThisCall,
    \* per caller: the status code of the HTTPException the call raised; 200 while none
    loadStatus,
    \* _search_bdl_best_player: the argument, the position, and the locals
    \* candidates (the terms), the loop index, seen_ids, all_found, best_player
    rName,
    rpc,
    rTerms,
    rIdx,
    seen_ids,
    all_found,
    best_player,
    \* the value _search_bdl_best_player returned
    rResult,
    \* history: the terms of the search requests sent, in order
    searched,
    \* history: the last search response carried a player whose normalized
    \* full name is the normalized query
    lastHadExact,
    \* history: the players some search response carried
    returnedEver,
    \* history: of the players the search responses carried, in the order
    \* received, each one that was the first to carry its id
    firstSeen,
    \* the status code of the HTTPException the resolver raised; 200 while none
    rStatus,
    \* what the upstream serves: the ESPN and CBS pages (tables), the NBC page (lines)
    espnPage,
    nbcPage,
    cbsPage,
    \* injuries_by_player: the argument `name`, the position, and the locals
    aName,
    apc,
    espn_all,
    espn_matches,
    nbc_all,
    nbc_matches,
    cbs_all,
    cbs_matches,
    bdl_injuries,
    \* the value injuries_by_player returned
    aResult,
    \* the status code of the HTTPException injuries_by_player raised; 200 while none
    aStatus,
    \* history: the fetches sent by injuries_by_player itself, [source, outcome], in order
    fetchLog,
    \* history: the list of injuries the upstream held when /v1/player_injuries was asked
    injUpstream,
    \* one call of a pure function of the source: the function's name, its
    \* argument, the value it returned, and whether the call has been made
    fnName,
    fnIn,
    fnOut,
    fnpc

cacheVars ==
    <<roster, ACTIVE_PLAYERS, ACTIVE_PLAYERS_LOADED, pc, players, cursor, callsMade,
      requestedBy, populatedBy, completedBy, everRaised, callAfter, reqsThisCall, loadStatus>>

resVars ==
    <<rName, rpc, rTerms, rIdx, seen_ids, all_found, best_player, rResult, searched,
      lastHadExact, returnedEver, firstSeen, rStatus>>

aggVars ==
    <<espnPage, nbcPage, cbsPage, aName, apc, espn_all, espn_matches, nbc_all,
      nbc_matches, cbs_all, cbs_matches, bdl_injuries, aResult, aStatus, fetchLog,
      injUpstream>>

fnVars == <<fnName, fnIn, fnOut, fnpc>>

vars == <<apiKey, cacheVars, resVars, aggVars, fnVars>>

\* no pure function is called on its own
FnOff ==
    /\ fnName = "none"
    /\ fnIn = <<>>
    /\ fnOut = <<>>
    /\ fnpc = "off"

(***************************************************************************)
(* The active-players cache: _load_active_players.                         *)
(***************************************************************************)
Callers == 1..NumCallers

\* the local `cursor`: None or an int
NoCursor == [kind |-> "none", val |-> 0]
IntCursor(v) == [kind |-> "int", val |-> v]

\* meta.next_cursor of a page: the key is absent, null, or an int
NextAbsent == [kind |-> "absent", val |-> 0]
NextNull == [kind |-> "null", val |-> 0]
CursorValues == {0, 1}

\* the players a page can carry
PageContents == {<<>>, <<PlayerAb, PlayerMono>>}

\* the cursors of a chain of pages are pairwise distinct: a cursor names one page
DistinctCursors(r) ==
    \A i, j \in 1..Len(r) :
        (i # j /\ r[i].next.kind = "int" /\ r[j].next.kind = "int") => r[i].next # r[j].next

\* every page but the last names its successor; the last one has no next_cursor
Rosters ==
    UNION {
        { r \in [1..n -> [data : PageContents,
                          next : {NextAbsent, NextNull} \cup {IntCursor(v) : v \in CursorValues}]] :
            /\ \A k \in 1..n : (r[k].next.kind = "int") <=> (k < n)
            /\ DistinctCursors(r) }
        : n \in 1..MaxPages }

\* the page the upstream serves for params: the first one without a cursor,
\* else the successor of the page that handed the cursor out
PageIndex(r, cur) ==
    IF cur.kind = "none" THEN 1
    ELSE 1 + CHOOSE k \in 1..Len(r) : r[k].next = cur

\* meta.get("next_cursor")
MetaGet(next) == IF next.kind = "int" THEN next ELSE NoCursor

\* `not cursor`
NotCursor(cur) == cur.kind = "none" \/ cur.val = 0

\* the full_name of a cache entry (lines 303-307): first and last are not stripped
LoaderFullName(p) ==
    IF p.full_name # <<>> THEN p.full_name
    ELSE Strip(FirstSpaceLast(p.first_name, p.last_name))

\* the dict appended to `players` for one upstream player (lines 309-323)
ActivePlayerEntry(p) ==
    [id |-> p.id, full_name |-> LoaderFullName(p),
     first_name |-> p.first_name, last_name |-> p.last_name]

MapEntries(data) == [i \in 1..Len(data) |-> ActivePlayerEntry(data[i])]

\* lines 284-290: the flag is read once; a loaded cache returns at once
LoadEnterNoCheck(t) ==
    /\ pc[t] = "idle"
    /\ callsMade < MaxCalls
    /\ callsMade' = callsMade + 1
    /\ callAfter' = [callAfter EXCEPT ![t] = completedBy # {}]
    /\ reqsThisCall' = [reqsThisCall EXCEPT ![t] = 0]
    /\ pc' = [pc EXCEPT ![t] = "page"]
    /\ players' = [players EXCEPT ![t] = <<>>]
    /\ cursor' = [cursor EXCEPT ![t] = NoCursor]
    /\ UNCHANGED <<resVars, aggVars, fnVars, loadStatus, apiKey, roster, ACTIVE_PLAYERS, ACTIVE_PLAYERS_LOADED, requestedBy,
                   populatedBy, completedBy, everRaised>>

LoadEnter(t) ==
    /\ pc[t] = "idle"
    /\ callsMade < MaxCalls
    /\ callsMade' = callsMade + 1
    /\ callAfter' = [callAfter EXCEPT ![t] = completedBy # {}]
    /\ reqsThisCall' = [reqsThisCall EXCEPT ![t] = 0]
    /\ IF ACTIVE_PLAYERS_LOADED
       THEN /\ pc' = [pc EXCEPT ![t] = "returned"]
            /\ UNCHANGED <<players, cursor>>
       ELSE /\ pc' = [pc EXCEPT ![t] = "page"]
            /\ players' = [players EXCEPT ![t] = <<>>]
            /\ cursor' = [cursor EXCEPT ![t] = NoCursor]
    /\ UNCHANGED <<resVars, aggVars, fnVars, loadStatus, apiKey, roster, ACTIVE_PLAYERS, ACTIVE_PLAYERS_LOADED, requestedBy,
                   populatedBy, completedBy, everRaised>>

\* lines 292-327 with the pages fetched so far stored when a request fails
LoadPageKeepPartial(t) ==
    /\ pc[t] = "page"
    /\ \E o \in CallOutcomes(apiKey) :
        LET k == PageIndex(roster, cursor[t])
            next == MetaGet(roster[k].next)
        IN  /\ requestedBy' =
                 IF SendsRequest(o) THEN [requestedBy EXCEPT ![k] = @ \cup {t}]
                 ELSE requestedBy
            /\ reqsThisCall' =
                 IF SendsRequest(o) THEN [reqsThisCall EXCEPT ![t] = @ + 1]
                 ELSE reqsThisCall
            /\ IF o = "ok"
               THEN /\ players' = [players EXCEPT ![t] = @ \o MapEntries(roster[k].data)]
                    /\ cursor' = [cursor EXCEPT ![t] = next]
                    /\ pc' = [pc EXCEPT ![t] = IF NotCursor(next) THEN "store" ELSE "page"]
                    /\ UNCHANGED <<everRaised, loadStatus, ACTIVE_PLAYERS>>
               ELSE /\ ACTIVE_PLAYERS' = players[t]
                    /\ players' = [players EXCEPT ![t] = <<>>]
                    /\ cursor' = [cursor EXCEPT ![t] = NoCursor]
                    /\ pc' = [pc EXCEPT ![t] = "raised"]
                    /\ everRaised' = TRUE
                    /\ loadStatus' = [loadStatus EXCEPT ![t] = StatusOf(o)]
    /\ UNCHANGED <<resVars, aggVars, fnVars, apiKey, roster, ACTIVE_PLAYERS_LOADED, callsMade,
                   populatedBy, completedBy, callAfter>>

\* lines 292-327: one iteration of the while loop
LoadPage(t) ==
    /\ pc[t] = "page"
    /\ \E o \in CallOutcomes(apiKey) :
        LET k == PageIndex(roster, cursor[t])
            next == MetaGet(roster[k].next)
        IN  /\ requestedBy' =
                 IF SendsRequest(o) THEN [requestedBy EXCEPT ![k] = @ \cup {t}]
                 ELSE requestedBy
            /\ reqsThisCall' =
                 IF SendsRequest(o) THEN [reqsThisCall EXCEPT ![t] = @ + 1]
                 ELSE reqsThisCall
            /\ IF o = "ok"
               THEN /\ players' = [players EXCEPT ![t] = @ \o MapEntries(roster[k].data)]
                    /\ cursor' = [cursor EXCEPT ![t] = next]
                    /\ pc' = [pc EXCEPT ![t] = IF NotCursor(next) THEN "store" ELSE "page"]
                    /\ UNCHANGED <<everRaised, loadStatus>>
               ELSE /\ players' = [players EXCEPT ![t] = <<>>]
                    /\ cursor' = [cursor EXCEPT ![t] = NoCursor]
                    /\ pc' = [pc EXCEPT ![t] = "raised"]
                    /\ everRaised' = TRUE
                    /\ loadStatus' = [loadStatus EXCEPT ![t] = StatusOf(o)]
    /\ UNCHANGED <<resVars, aggVars, fnVars, apiKey, roster, ACTIVE_PLAYERS, ACTIVE_PLAYERS_LOADED, callsMade,
                   populatedBy, completedBy, callAfter>>

\* line 330 in the place of line 329: the flag is stored, the list is not
LoadStoreFlagFirst(t) ==
    /\ pc[t] = "store"
    /\ ACTIVE_PLAYERS_LOADED' = TRUE
    /\ pc' = [pc EXCEPT ![t] = "flag"]
    /\ UNCHANGED <<resVars, aggVars, fnVars, loadStatus, apiKey, roster, ACTIVE_PLAYERS, players,
                   cursor, callsMade, requestedBy, populatedBy, completedBy, everRaised,
                   callAfter, reqsThisCall>>

\* line 329
LoadStorePlayers(t) ==
    /\ pc[t] = "store"
    /\ ACTIVE_PLAYERS' = players[t]
    /\ populatedBy' = populatedBy \cup {t}
    /\ pc' = [pc EXCEPT ![t] = "flag"]
    /\ UNCHANGED <<resVars, aggVars, fnVars, loadStatus, apiKey, roster, ACTIVE_PLAYERS_LOADED, players, cursor, callsMade,
                   requestedBy, completedBy, everRaised, callAfter, reqsThisCall>>

\* line 330, and the return
LoadStoreFlag(t) ==
    /\ pc[t] = "flag"
    /\ ACTIVE_PLAYERS_LOADED' = TRUE
    /\ completedBy' = completedBy \cup {t}
    /\ pc' = [pc EXCEPT ![t] = "returned"]
    /\ UNCHANGED <<resVars, aggVars, fnVars, loadStatus, apiKey, roster, ACTIVE_PLAYERS, players, cursor, callsMade,
                   requestedBy, populatedBy, everRaised, callAfter, reqsThisCall>>

\* the caller is done with the call (it returned or raised) and is free for the next
LoadReturn(t) ==
    /\ pc[t] \in {"returned", "raised"}
    /\ pc' = [pc EXCEPT ![t] = "idle"]
    /\ players' = [players EXCEPT ![t] = <<>>]
    /\ cursor' = [cursor EXCEPT ![t] = NoCursor]
    /\ callAfter' = [callAfter EXCEPT ![t] = FALSE]
    /\ reqsThisCall' = [reqsThisCall EXCEPT ![t] = 0]
    /\ loadStatus' = [loadStatus EXCEPT ![t] = 200]
    /\ UNCHANGED <<resVars, aggVars, fnVars, apiKey, roster, ACTIVE_PLAYERS, ACTIVE_PLAYERS_LOADED, callsMade,
                   requestedBy, populatedBy, completedBy, everRaised>>

(***************************************************************************)
(* The resolver: _search_bdl_best_player.                                  *)
(***************************************************************************)
\* Optional[...]: None is the empty sequence, a value v is <<v>>
None == <<>>
Some(v) == <<v>>

\* _normalize_full_name that drops the last token of the name
NormalizeFullNameDropLast(p) ==
    LET full == IF p.full_name # <<>> THEN p.full_name
                ELSE Strip(FirstSpaceLast(Strip(p.first_name), Strip(p.last_name)))
        toks == Split(LowerStr(full))
    IN  JoinSpace(SubSeq(toks, 1, Len(toks) - 1))

\* _normalize_full_name (lines 702-708)
NormalizeFullName(p) ==
    LET full == IF p.full_name # <<>> THEN p.full_name
                ELSE Strip(FirstSpaceLast(Strip(p.first_name), Strip(p.last_name)))
    IN  JoinSpace(Split(LowerStr(full)))

\* query_norm (line 726), of the stripped name
QueryNorm(name) == JoinSpace(Split(LowerStr(name)))

\* the list `candidates` of search terms (lines 716-721), of the stripped name
SearchTerms(name) ==
    LET tokens == Split(name)
    IN  <<name>>
        \o (IF Len(tokens) >= 1 THEN <<tokens[Len(tokens)]>> ELSE <<>>)
        \o (IF Len(tokens) >= 2 THEN <<tokens[1]>> ELSE <<>>)

\* the entries of a sequence of players that no earlier entry shares its id
\* with, in their order
RECURSIVE FirstOfEachId(_)
FirstOfEachId(seq) ==
    IF seq = <<>> THEN <<>>
    ELSE LET n == Len(seq)
             front == FirstOfEachId(SubSeq(seq, 1, n - 1))
         IN  IF \E j \in 1..(n - 1) : seq[j].id = seq[n].id THEN front
             ELSE Append(front, seq[n])

\* lines 733-738 without the test of seen_ids
RECURSIVE AccumulateNoDedup(_, _, _)
AccumulateNoDedup(found, seen, data) ==
    IF data = <<>> THEN [found |-> found, seen |-> seen]
    ELSE AccumulateNoDedup(Append(found, Head(data)), seen \cup {Head(data).id}, Tail(data))

\* lines 733-738: the players of data whose id is new, appended in order
RECURSIVE Accumulate(_, _, _)
Accumulate(found, seen, data) ==
    IF data = <<>> THEN [found |-> found, seen |-> seen]
    ELSE IF Head(data).id \in seen THEN Accumulate(found, seen, Tail(data))
    ELSE Accumulate(Append(found, Head(data)), seen \cup {Head(data).id}, Tail(data))

\* lines 740-743: the first player of data whose normalized name is the query's
RECURSIVE FirstExactNever(_, _)
FirstExactNever(data, qn) == None

RECURSIVE FirstExact(_, _)
FirstExact(data, qn) ==
    IF data = <<>> THEN None
    ELSE IF NormalizeFullName(Head(data)) = qn THEN Some(Head(data))
    ELSE FirstExact(Tail(data), qn)

\* lines 748-749
DefaultBestLast(best, found) ==
    IF best = None /\ found # <<>> THEN Some(found[Len(found)]) ELSE best

DefaultBest(best, found) ==
    IF best = None /\ found # <<>> THEN Some(found[1]) ELSE best

\* the names the resolver is called with
NameChars == {"a", "b", "B", " "}
Names == UNION {[1..n -> NameChars] : n \in 0..MaxNameLen}

\* the data of a search response
Responses == UNION {[1..n -> Players] : n \in 0..MaxData}

AggOff ==
    /\ espnPage = <<>>
    /\ nbcPage = <<>>
    /\ cbsPage = <<>>
    /\ aName = <<>>
    /\ apc = "off"
    /\ espn_all = <<>>
    /\ espn_matches = <<>>
    /\ nbc_all = <<>>
    /\ nbc_matches = <<>>
    /\ cbs_all = <<>>
    /\ cbs_matches = <<>>
    /\ bdl_injuries = <<>>
    /\ aResult = <<>>
    /\ aStatus = 200
    /\ fetchLog = <<>>
    /\ injUpstream = <<>>

ResolverOff ==
    /\ rName = <<>>
    /\ rpc = "off"
    /\ rTerms = <<>>
    /\ rIdx = 0
    /\ seen_ids = {}
    /\ all_found = <<>>
    /\ best_player = None
    /\ rResult = [best |-> None, candidates |-> <<>>]
    /\ searched = <<>>
    /\ lastHadExact = FALSE
    /\ returnedEver = {}
    /\ firstSeen = <<>>
    /\ rStatus = 200

\* lines 712-726 without the test of line 713
ResolveStartNoEmptyCheck ==
    /\ rpc = "start"
    /\ rTerms' = SearchTerms(Strip(rName))
    /\ rIdx' = 1
    /\ rpc' = "search"
    /\ UNCHANGED <<rName, seen_ids, all_found, best_player, rResult, searched, lastHadExact,
                   returnedEver, firstSeen, rStatus>>
    /\ UNCHANGED <<apiKey, cacheVars, aggVars, fnVars>>

\* lines 712-726
ResolveStart ==
    /\ rpc = "start"
    /\ IF Strip(rName) = <<>>
       THEN /\ rResult' = [best |-> None, candidates |-> <<>>]
            /\ rpc' = "done"
            /\ UNCHANGED <<rTerms, rIdx>>
       ELSE /\ rTerms' = SearchTerms(Strip(rName))
            /\ rIdx' = 1
            /\ rpc' = "search"
            /\ UNCHANGED rResult
    /\ UNCHANGED <<rName, seen_ids, all_found, best_player, searched, lastHadExact,
                   returnedEver, firstSeen, rStatus>>
    /\ UNCHANGED <<apiKey, cacheVars, aggVars, fnVars>>

\* lines 728-746 without the break of lines 745-746
ResolveSearchNoBreak ==
    /\ rpc = "search"
    /\ \E o \in CallOutcomes(apiKey) :
        /\ searched' = IF SendsRequest(o) THEN Append(searched, rTerms[rIdx]) ELSE searched
        /\ IF o = "ok"
           THEN \E data \in Responses :
                    LET acc == Accumulate(all_found, seen_ids, data)
                        best == FirstExact(data, QueryNorm(Strip(rName)))
                    IN  /\ all_found' = acc.found
                        /\ seen_ids' = acc.seen
                        /\ best_player' = IF best # None THEN best ELSE best_player
                        /\ lastHadExact' =
                             \E i \in 1..Len(data) :
                                 NormalizeFullName(data[i]) = QueryNorm(Strip(rName))
                        /\ returnedEver' = returnedEver \cup {data[i] : i \in 1..Len(data)}
                        /\ firstSeen' = FirstOfEachId(firstSeen \o data)
                        /\ IF rIdx = Len(rTerms)
                           THEN rpc' = "finish" /\ UNCHANGED rIdx
                           ELSE rpc' = "search" /\ rIdx' = rIdx + 1
                        /\ UNCHANGED rStatus
           ELSE /\ rpc' = "raised"
                /\ rStatus' = StatusOf(o)
                /\ UNCHANGED <<rIdx, seen_ids, all_found, best_player, lastHadExact,
                               returnedEver, firstSeen>>
    /\ UNCHANGED <<rName, rTerms, rResult>>
    /\ UNCHANGED <<apiKey, cacheVars, aggVars, fnVars>>

\* lines 728-746: one iteration of the loop over the terms
ResolveSearch ==
    /\ rpc = "search"
    /\ \E o \in CallOutcomes(apiKey) :
        /\ searched' = IF SendsRequest(o) THEN Append(searched, rTerms[rIdx]) ELSE searched
        /\ IF o = "ok"
           THEN \E data \in Responses :
                    LET acc == Accumulate(all_found, seen_ids, data)
                        best == FirstExact(data, QueryNorm(Strip(rName)))
                    IN  /\ all_found' = acc.found
                        /\ seen_ids' = acc.seen
                        /\ best_player' = best
                        /\ lastHadExact' =
                             \E i \in 1..Len(data) :
                                 NormalizeFullName(data[i]) = QueryNorm(Strip(rName))
                        /\ returnedEver' = returnedEver \cup {data[i] : i \in 1..Len(data)}
                        /\ firstSeen' = FirstOfEachId(firstSeen \o data)
                        /\ IF best # None \/ rIdx = Len(rTerms)
                           THEN rpc' = "finish" /\ UNCHANGED rIdx
                           ELSE rpc' = "search" /\ rIdx' = rIdx + 1
                        /\ UNCHANGED rStatus
           ELSE /\ rpc' = "raised"
                /\ rStatus' = StatusOf(o)
                /\ UNCHANGED <<rIdx, seen_ids, all_found, best_player, lastHadExact,
                               returnedEver, firstSeen>>
    /\ UNCHANGED <<rName, rTerms, rResult>>
    /\ UNCHANGED <<apiKey, cacheVars, aggVars, fnVars>>

\* lines 748-751
ResolveFinish ==
    /\ rpc = "finish"
    /\ best_player' = DefaultBest(best_player, all_found)
    /\ rResult' = [best |-> best_player', candidates |-> all_found]
    /\ rpc' = "done"
    /\ UNCHANGED <<rName, rTerms, rIdx, seen_ids, all_found, searched, lastHadExact,
                   returnedEver, firstSeen, rStatus>>
    /\ UNCHANGED <<apiKey, cacheVars, aggVars, fnVars>>

CacheOff ==
    /\ roster = <<>>
    /\ ACTIVE_PLAYERS = <<>>
    /\ ACTIVE_PLAYERS_LOADED = FALSE
    /\ pc = [t \in Callers |-> "off"]
    /\ players = [t \in Callers |-> <<>>]
    /\ cursor = [t \in Callers |-> NoCursor]
    /\ callsMade = 0
    /\ requestedBy = <<>>
    /\ populatedBy = {}
    /\ completedBy = {}
    /\ everRaised = FALSE
    /\ callAfter = [t \in Callers |-> FALSE]
    /\ reqsThisCall = [t \in Callers |-> 0]
    /\ loadStatus = [t \in Callers |-> 200]

\* one call of the resolver with any name, with and without an API key
InitResolver ==
    /\ apiKey \in BOOLEAN
    /\ CacheOff
    /\ rName \in Names
    /\ rpc = "start"
    /\ rTerms = <<>>
    /\ rIdx = 0
    /\ seen_ids = {}
    /\ all_found = <<>>
    /\ best_player = None
    /\ rResult = [best |-> None, candidates |-> <<>>]
    /\ searched = <<>>
    /\ lastHadExact = FALSE
    /\ returnedEver = {}
    /\ firstSeen = <<>>
    /\ rStatus = 200
    /\ AggOff
    /\ FnOff

NextResolver ==
    \/ ResolveStart
    \/ ResolveSearch
    \/ ResolveFinish

SpecResolver == InitResolver /\ [][NextResolver]_vars

\* a name that is empty or consists of whitespace only
IsBlank(s) == \A i \in 1..Len(s) : s[i] = " "

\* the one known player whose normalized full name is the normalized query
UniqueMatch(P) ==
    \A q \in Players : (NormalizeFullName(q) = QueryNorm(rName)) <=> (q = P)

\* C4: for an empty or whitespace-only name the resolver sends no search
\* request, raises nothing and returns (None, []).
C4_BlankNameNoRequest ==
    IsBlank(rName) =>
        /\ searched = <<>>
        /\ rpc \in {"start", "done"}
        /\ rpc = "done" => rResult = [best |-> None, candidates |-> <<>>]

\* the resolver has returned for a name of two spaces
C4_Witness == rpc = "done" /\ rName = <<" ", " ">> /\ rResult.best = None

\* C5 as stated: whenever the query normalizes to the normalized full name of
\* exactly one known player, the resolver returns that player as best.
C5_Original ==
    rpc = "done" => \A P \in Players : UniqueMatch(P) => rResult.best = Some(P)

\* C5, amended: whenever the query normalizes to the normalized full name of
\* exactly one known player and some search response of this call carried that
\* player, the resolver returns that player as best.
C5_UniqueExactMatchIsBest ==
    rpc = "done" =>
        \A P \in Players : (UniqueMatch(P) /\ P \in returnedEver) => rResult.best = Some(P)

\* the unique match is best although an earlier term returned another player first
C5_Witness ==
    /\ rpc = "done"
    /\ UniqueMatch(PlayerMono)
    /\ rResult.best = Some(PlayerMono)
    /\ Len(searched) >= 2
    /\ rResult.candidates # <<>>
    /\ rResult.candidates[1] # PlayerMono

\* C6: search requests go out one term at a time in the order of the term
\* list, none after a response that carried a player whose normalized name is
\* the normalized query, and the resolver then returns such a player as best.
C6_StopsAtExactMatch ==
    /\ [][searched' # searched =>
            /\ ~lastHadExact
            /\ searched' = SubSeq(rTerms, 1, Len(searched) + 1)]_vars
    /\ []((rpc = "done" /\ lastHadExact) =>
            /\ rResult.best # None
            /\ rResult.best[1] \in returnedEver
            /\ NormalizeFullName(rResult.best[1]) = QueryNorm(rName))

\* the resolver stopped at an exact match with a term left unsearched
C6_Witness ==
    /\ rpc = "done"
    /\ lastHadExact
    /\ Len(searched) = 2
    /\ Len(rTerms) = 3

\* C7: when no search response carried a player whose normalized name is the
\* normalized query, best is the first entry of candidates, and None exactly
\* when candidates is empty.
C7_DefaultsToFirstCandidate ==
    (rpc = "done" /\ \A p \in returnedEver : NormalizeFullName(p) # QueryNorm(rName)) =>
        rResult.best =
            IF rResult.candidates = <<>> THEN None ELSE Some(rResult.candidates[1])

\* no exact match, two candidates, the first of them is best
C7_Witness ==
    /\ rpc = "done"
    /\ \A p \in returnedEver : NormalizeFullName(p) # QueryNorm(rName)
    /\ Len(rResult.candidates) = 2
    /\ rResult.best = Some(rResult.candidates[1])

\* C20: the candidates returned hold no id twice, hold an entry for every id
\* that a search response of the call carried, and are, in the order in which
\* the ids were first received, the first player received with each id
\* (players without an id share the id None).
C20_CandidatesDedupInOrder ==
    rpc = "done" =>
        LET c == rResult.candidates
        IN  /\ \A i, j \in 1..Len(c) : i < j => c[i].id # c[j].id
            /\ {c[i].id : i \in 1..Len(c)} = {p.id : p \in returnedEver}
            /\ c = firstSeen

\* three different players were received over two searches or more, two of
\* them under one id: two candidates
C20_Witness ==
    /\ rpc = "done"
    /\ Len(searched) >= 2
    /\ Cardinality(returnedEver) = 3
    /\ Len(rResult.candidates) = 2

\* lines 280-281, and an upstream with one of the rosters
\* C25: in every resolver result, best is non-null exactly when candidates is
\* non-empty, and a non-null best is one of the entries of candidates
C25_BestAmongCandidates ==
    rpc = "done" =>
        /\ (rResult.best # None) <=> (rResult.candidates # <<>>)
        /\ rResult.best # None => InSeq(rResult.best[1], rResult.candidates)

Init ==
    /\ apiKey \in BOOLEAN
    /\ roster \in Rosters
    /\ ACTIVE_PLAYERS = <<>>
    /\ ACTIVE_PLAYERS_LOADED = FALSE
    /\ pc = [t \in Callers |-> "idle"]
    /\ players = [t \in Callers |-> <<>>]
    /\ cursor = [t \in Callers |-> NoCursor]
    /\ callsMade = 0
    /\ requestedBy = [k \in 1..Len(roster) |-> {}]
    /\ populatedBy = {}
    /\ completedBy = {}
    /\ everRaised = FALSE
    /\ callAfter = [t \in Callers |-> FALSE]
    /\ reqsThisCall = [t \in Callers |-> 0]
    /\ loadStatus = [t \in Callers |-> 200]
    /\ ResolverOff
    /\ AggOff
    /\ FnOff

Next ==
    \E t \in Callers :
        \/ LoadEnter(t)
        \/ LoadPage(t)
        \/ LoadStorePlayers(t)
        \/ LoadStoreFlag(t)
        \/ LoadReturn(t)

Spec == Init /\ [][Next]_vars

\* every player of every page of the roster, mapped, in page order
RECURSIVE AllEntries(_)
AllEntries(r) ==
    IF r = <<>> THEN <<>> ELSE MapEntries(Head(r).data) \o AllEntries(Tail(r))

\* C1: when callers load concurrently while the cache is unloaded (and no call
\* fails), every page is requested by one caller only and one caller only
\* assigns ACTIVE_PLAYERS.
C1_PaginationRunsOnce ==
    ~everRaised =>
        /\ \A k \in 1..Len(roster) : Cardinality(requestedBy[k]) <= 1
        /\ Cardinality(populatedBy) <= 1

\* C2: a call of _load_active_players that begins after a call has completed
\* returns at once, sends no request and leaves ACTIVE_PLAYERS and
\* ACTIVE_PLAYERS_LOADED as they were.
C2_LaterLoadIsNoOp ==
    [][\A t \in Callers :
          (callAfter'[t] /\ pc'[t] # pc[t]) =>
              /\ pc'[t] = "returned"
              /\ reqsThisCall'[t] = 0
              /\ requestedBy' = requestedBy
              /\ ACTIVE_PLAYERS' = ACTIVE_PLAYERS
              /\ ACTIVE_PLAYERS_LOADED' = ACTIVE_PLAYERS_LOADED]_vars

\* a call that began after a completed load has returned
C2_Witness ==
    \E t \in Callers : callAfter[t] /\ pc[t] = "returned" /\ reqsThisCall[t] = 0

\* C3: once the cache is loaded it holds the players of every page of the
\* active-players endpoint, in page order.
C3_CacheHoldsEveryPage ==
    ACTIVE_PLAYERS_LOADED => ACTIVE_PLAYERS = AllEntries(roster)

\* the list a pagination builds before its loop ends: the entries of the pages
\* from page k on, up to the first page whose next_cursor ends the loop
RECURSIVE Paginated(_, _)
Paginated(r, k) ==
    MapEntries(r[k].data)
    \o (IF NotCursor(MetaGet(r[k].next)) THEN <<>>
        ELSE Paginated(r, PageIndex(r, MetaGet(r[k].next))))

\* C17: whenever ACTIVE_PLAYERS_LOADED is set, ACTIVE_PLAYERS has been assigned
\* and is the whole list of a pagination that ran to its end, also while other
\* callers are loading or reading; the flag is never reset, so a caller that
\* saw it set reads such a list.
C17_LoadedImpliesWholeList ==
    /\ ACTIVE_PLAYERS_LOADED => (populatedBy # {} /\ ACTIVE_PLAYERS = Paginated(roster, 1))
    /\ \A t \in Callers :
          (callAfter[t] /\ pc[t] = "returned") =>
              (ACTIVE_PLAYERS_LOADED /\ ACTIVE_PLAYERS = Paginated(roster, 1))

\* a caller that saw the flag set has returned while the other caller is
\* still in its own load; the list has two players or more
C17_Witness ==
    /\ ACTIVE_PLAYERS_LOADED
    /\ Len(ACTIVE_PLAYERS) >= 2
    /\ \E t, u \in Callers :
          /\ callAfter[t]
          /\ pc[t] = "returned"
          /\ pc[u] \in {"page", "store", "flag"}

\* C11: without an API key no request ever reaches the Roster-API and no
\* operation that calls it succeeds: every call of _load_active_players that
\* got as far as its first request raised with status 500, again on each later
\* call, and the cache is never marked loaded; the resolver raises 500 before
\* its first search unless the name is blank, and injuries_by_player, once it
\* reaches the resolver, raises 500.
C11_NoKeyIsConfigError ==
    ~apiKey =>
        /\ \A k \in 1..Len(roster) : requestedBy[k] = {}
        /\ \A t \in Callers :
              /\ reqsThisCall[t] = 0
              /\ pc[t] \in {"off", "idle", "page", "raised"}
              /\ pc[t] = "raised" => loadStatus[t] = 500
        /\ ~ACTIVE_PLAYERS_LOADED
        /\ completedBy = {}
        /\ searched = <<>>
        /\ rpc \in {"off", "start", "search", "raised", "done"}
        /\ rpc = "raised" => rStatus = 500
        /\ rpc = "done" => IsBlank(rName)
        /\ \A i \in 1..Len(fetchLog) : fetchLog[i].source # "balldontlie"
        /\ apc # "done"
        /\ (apc = "raised" /\ rpc = "raised") => aStatus = 500

\* without a key, every caller's call has raised 500, one of them for the
\* second time at least
C11_Witness ==
    /\ ~apiKey
    /\ callsMade > NumCallers
    /\ \A t \in Callers : pc[t] = "raised" /\ loadStatus[t] = 500

\* C24: a load whose page request fails raises and leaves the cache as it
\* was: the failing step changes neither ACTIVE_PLAYERS nor
\* ACTIVE_PLAYERS_LOADED, the caller has stored nothing in that call and drops
\* the pages it had fetched, and with no other caller's store the cache is
\* still empty and not loaded; a load call that gets past the flag starts with
\* no cursor and no players, and its first request is for the first page
C24_FailedLoadLeavesCache ==
    [][\A t \in Callers :
        /\ (pc[t] = "page" /\ pc'[t] = "raised") =>
              /\ ACTIVE_PLAYERS' = ACTIVE_PLAYERS
              /\ ACTIVE_PLAYERS_LOADED' = ACTIVE_PLAYERS_LOADED
              /\ t \notin populatedBy' /\ t \notin completedBy'
              /\ players'[t] = <<>>
              /\ loadStatus'[t] \in {500, 502, 503}
              /\ populatedBy = {} => (ACTIVE_PLAYERS' = <<>> /\ ~ACTIVE_PLAYERS_LOADED')
        /\ (pc[t] = "idle" /\ pc'[t] = "page") =>
              (cursor'[t] = NoCursor /\ players'[t] = <<>>)
        /\ (pc[t] = "page" /\ reqsThisCall[t] = 0 /\ reqsThisCall'[t] = 1) =>
              /\ t \in requestedBy'[1]
              /\ \A k \in 2..Len(roster) : requestedBy'[k] = requestedBy[k]]_vars

\* a caller's request for the second page failed after the first page, which
\* has players, had been fetched; the cache is empty and not loaded
C24_Witness ==
    \E t \in Callers :
        /\ pc[t] = "raised"
        /\ reqsThisCall[t] = 2
        /\ roster[1].data # <<>>
        /\ ACTIVE_PLAYERS = <<>>
        /\ ~ACTIVE_PLAYERS_LOADED

(***************************************************************************)
(* The aggregation: injuries_by_player, with _compute_aggregated_status    *)
(* and injuries_balldontlie_by_player_id.                                  *)
(***************************************************************************)
\* _compute_aggregated_status with ESPN listed first
ComputeAggregatedStatusEspnFirst(bdl, espn, cbs, nbc) ==
    LET swi == (IF espn # <<>> THEN <<"espn">> ELSE <<>>)
               \o (IF bdl # <<>> THEN <<"balldontlie">> ELSE <<>>)
               \o (IF cbs # <<>> THEN <<"cbs">> ELSE <<>>)
               \o (IF nbc # <<>> THEN <<"nbc">> ELSE <<>>)
    IN  [status |-> IF swi # <<>> THEN "flagged" ELSE "clear", sources_with_info |-> swi]

\* _compute_aggregated_status (lines 758-779)
ComputeAggregatedStatus(bdl, espn, cbs, nbc) ==
    LET swi == (IF bdl # <<>> THEN <<"balldontlie">> ELSE <<>>)
               \o (IF espn # <<>> THEN <<"espn">> ELSE <<>>)
               \o (IF cbs # <<>> THEN <<"cbs">> ELSE <<>>)
               \o (IF nbc # <<>> THEN <<"nbc">> ELSE <<>>)
    IN  [status |-> IF swi # <<>> THEN "flagged" ELSE "clear", sources_with_info |-> swi]

\* an item of /v1/player_injuries: its player (the empty dict when missing) and status
NoPlayerDict == Player(NoneId, <<>>, <<>>, <<>>)
\* another player of the upstream who carries the names of PlayerAb
PlayerAbTwin == Player(2, <<>>, <<"A">>, <<"b">>)
InjuryItems == {[player |-> p, status |-> T_Out] : p \in {PlayerAb, PlayerAbTwin, NoPlayerDict}}

\* the page size asked of /v1/player_injuries (per_page, lines 250 and 841), scaled
PerPage == MaxData

\* the lists of injuries the upstream can hold: up to one item more than a page
InjuryUpstreams == UNION {[1..n -> InjuryItems] : n \in 0..(PerPage + 1)}

\* the data of the response to a request without a cursor: the first page of the list
FirstPage(held) == SubSeq(held, 1, IF Len(held) < PerPage THEN Len(held) ELSE PerPage)

\* _map_balldontlie_injury (lines 129-152); a player_name of None is the empty string
MapBalldontlieInjury(item) ==
    [player_id |-> item.player.id,
     player_name |-> IF item.player.full_name # <<>> THEN item.player.full_name
                     ELSE Strip(FirstSpaceLast(item.player.first_name, item.player.last_name)),
     status |-> item.status,
     source |-> "balldontlie"]

\* injuries_balldontlie_by_player_id filtering on the names of the requested player
InjuriesOfPlayerByName(player_id, data) ==
    LET SameName(p, q) == /\ p.full_name = q.full_name
                          /\ p.first_name = q.first_name
                          /\ p.last_name = q.last_name
        Mine(item) == \E k \in 1..Len(data) : /\ data[k].player.id = player_id
                                               /\ SameName(data[k].player, item.player)
        filtered_raw == SelectSeq(data, Mine)
    IN  [i \in 1..Len(filtered_raw) |-> MapBalldontlieInjury(filtered_raw[i])]

\* lines 258-265 of injuries_balldontlie_by_player_id
InjuriesOfPlayer(player_id, data) ==
    LET Mine(item) == item.player.id = player_id
        filtered_raw == SelectSeq(data, Mine)
    IN  [i \in 1..Len(filtered_raw) |-> MapBalldontlieInjury(filtered_raw[i])]

\* bdl_player_info (lines 818-839)
BdlPlayerInfo(p) ==
    [id |-> p.id,
     full_name |-> IF p.full_name # <<>> THEN p.full_name
                   ELSE Strip(FirstSpaceLast(Strip(p.first_name), Strip(p.last_name))),
     first_name |-> p.first_name, last_name |-> p.last_name]

\* the names, pages and lines the aggregation is run on
N_aB == <<"a", "B">>
N_Ab == <<"A", " ", "b">>
N_AbGlued == <<"A", "b", "A", " ", "b">>

AggNames == {<<" ">>, N_aB, N_Ab, <<"b">>}

EspnRowOf(name) == <<name, T_PG, T_x, T_Out, T_x>>
CbsRowOf(name) == <<name, T_PG, T_x, T_x, T_Out>>

EspnPages ==
    { <<>>,
      << [headers |-> <<T_NAME, T_POS, T_STATUS, T_COMMENT>>, rows |-> <<EspnRowOf(N_Ab)>>],
         [headers |-> EspnWanted,
          rows |-> <<EspnRowOf(T_NAME), EspnRowOf(N_aB), <<N_Ab, T_PG>>>>] >>,
      << [headers |-> EspnWanted, rows |-> <<EspnRowOf(N_Ab), EspnRowOf(N_aB)>>] >>,
      << [headers |-> <<T_x>> \o EspnWanted, rows |-> <<EspnRowOf(N_Ab)>>] >> }

CbsPages ==
    { <<>>,
      << [headers |-> CbsWanted, rows |-> <<CbsRowOf(T_Player), CbsRowOf(N_aB)>>] >>,
      << [headers |-> CbsWanted, rows |-> <<CbsRowOf(N_Ab)>>] >>,
      << [headers |-> <<T_Player>>, rows |-> <<CbsRowOf(N_Ab)>>],
         [headers |-> CbsWanted, rows |-> <<CbsRowOf(N_AbGlued)>>] >> }

NbcBlock(name) == <<name, T_PG, T_x, T_x, T_x>>

NbcPages ==
    { <<T_x>>,
      <<T_x, T_Injuries, T_Team, T_PLAYER, T_POS, T_DATE, T_INJURY>>
          \o NbcBlock(N_aB) \o NbcBlock(N_Ab) \o <<T_x>>,
      <<T_INJURIES, T_Team, T_PLAYER, T_POS, T_DATE, T_INJURY>> \o NbcBlock(N_Ab) }

\* lines 784-788
AggStart ==
    /\ apc = "start"
    /\ IF Strip(aName) = <<>>
       THEN apc' = "raised" /\ aStatus' = 400
       ELSE apc' = "espn" /\ UNCHANGED aStatus
    /\ UNCHANGED <<injUpstream, espnPage, nbcPage, cbsPage, aName, espn_all, espn_matches, nbc_all,
                   nbc_matches, cbs_all, cbs_matches, bdl_injuries, aResult, fetchLog>>
    /\ UNCHANGED <<apiKey, cacheVars, resVars, fnVars>>

\* lines 790-795 with a failed ESPN fetch tried again
AggEspnRetry ==
    /\ apc = "espn"
    /\ \E o \in FetchOutcomes :
        /\ fetchLog' = Append(fetchLog, [source |-> "espn", outcome |-> o])
        /\ IF o = "ok"
           THEN LET parsed == ParseEspn(espnPage)
                IN  IF parsed.ok
                    THEN /\ espn_all' = parsed.records
                         /\ espn_matches' = MatchesOf(parsed.records, LowerStr(Strip(aName)))
                         /\ apc' = "nbc"
                         /\ UNCHANGED aStatus
                    ELSE /\ apc' = "raised"
                         /\ aStatus' = 500
                         /\ UNCHANGED <<espn_all, espn_matches>>
           ELSE /\ apc' = IF Len(fetchLog) = 0 THEN "espn" ELSE "raised"
                /\ aStatus' = IF Len(fetchLog) = 0 THEN aStatus ELSE StatusOf(o)
                /\ UNCHANGED <<espn_all, espn_matches>>
    /\ UNCHANGED <<injUpstream, espnPage, nbcPage, cbsPage, aName, nbc_all, nbc_matches, cbs_all,
                   cbs_matches, bdl_injuries, aResult>>
    /\ UNCHANGED <<apiKey, cacheVars, resVars, fnVars>>

\* lines 790-795: _fetch_espn_html, _parse_espn_injuries and the name filter
AggEspn ==
    /\ apc = "espn"
    /\ \E o \in FetchOutcomes :
        /\ fetchLog' = Append(fetchLog, [source |-> "espn", outcome |-> o])
        /\ IF o = "ok"
           THEN LET parsed == ParseEspn(espnPage)
                IN  IF parsed.ok
                    THEN /\ espn_all' = parsed.records
                         /\ espn_matches' = MatchesOf(parsed.records, LowerStr(Strip(aName)))
                         /\ apc' = "nbc"
                         /\ UNCHANGED aStatus
                    ELSE /\ apc' = "raised"
                         /\ aStatus' = 500
                         /\ UNCHANGED <<espn_all, espn_matches>>
           ELSE /\ apc' = "raised"
                /\ aStatus' = StatusOf(o)
                /\ UNCHANGED <<espn_all, espn_matches>>
    /\ UNCHANGED <<injUpstream, espnPage, nbcPage, cbsPage, aName, nbc_all, nbc_matches, cbs_all,
                   cbs_matches, bdl_injuries, aResult>>
    /\ UNCHANGED <<apiKey, cacheVars, resVars, fnVars>>

\* lines 797-802: _fetch_nbc_html, _parse_nbc_injuries and the name filter
AggNbc ==
    /\ apc = "nbc"
    /\ \E o \in FetchOutcomes :
        /\ fetchLog' = Append(fetchLog, [source |-> "nbc", outcome |-> o])
        /\ IF o = "ok"
           THEN /\ nbc_all' = ParseNbc(nbcPage)
                /\ nbc_matches' = MatchesOf(nbc_all', LowerStr(Strip(aName)))
                /\ apc' = "cbs"
                /\ UNCHANGED aStatus
           ELSE /\ apc' = "raised"
                /\ aStatus' = StatusOf(o)
                /\ UNCHANGED <<nbc_all, nbc_matches>>
    /\ UNCHANGED <<injUpstream, espnPage, nbcPage, cbsPage, aName, espn_all, espn_matches, cbs_all,
                   cbs_matches, bdl_injuries, aResult>>
    /\ UNCHANGED <<apiKey, cacheVars, resVars, fnVars>>

\* lines 804-809 with a failed CBS fetch taken as an empty page
AggCbsSoft ==
    /\ apc = "cbs"
    /\ \E o \in FetchOutcomes :
        /\ fetchLog' = Append(fetchLog, [source |-> "cbs", outcome |-> o])
        /\ LET parsed == IF o = "ok" THEN ParseCbs(cbsPage) ELSE Parsed(<<>>)
           IN  IF parsed.ok
               THEN /\ cbs_all' = parsed.records
                    /\ cbs_matches' = MatchesOf(parsed.records, LowerStr(Strip(aName)))
                    /\ apc' = "resolve"
                    /\ UNCHANGED aStatus
               ELSE /\ apc' = "raised"
                    /\ aStatus' = 500
                    /\ UNCHANGED <<cbs_all, cbs_matches>>
    /\ UNCHANGED <<injUpstream, espnPage, nbcPage, cbsPage, aName, espn_all, espn_matches, nbc_all,
                   nbc_matches, bdl_injuries, aResult>>
    /\ UNCHANGED <<apiKey, cacheVars, resVars, fnVars>>

\* lines 804-809: _fetch_cbs_html, _parse_cbs_injuries and the name filter
AggCbs ==
    /\ apc = "cbs"
    /\ \E o \in FetchOutcomes :
        /\ fetchLog' = Append(fetchLog, [source |-> "cbs", outcome |-> o])
        /\ IF o = "ok"
           THEN LET parsed == ParseCbs(cbsPage)
                IN  IF parsed.ok
                    THEN /\ cbs_all' = parsed.records
                         /\ cbs_matches' = MatchesOf(parsed.records, LowerStr(Strip(aName)))
                         /\ apc' = "resolve"
                         /\ UNCHANGED aStatus
                    ELSE /\ apc' = "raised"
                         /\ aStatus' = 500
                         /\ UNCHANGED <<cbs_all, cbs_matches>>
           ELSE /\ apc' = "raised"
                /\ aStatus' = StatusOf(o)
                /\ UNCHANGED <<cbs_all, cbs_matches>>
    /\ UNCHANGED <<injUpstream, espnPage, nbcPage, cbsPage, aName, espn_all, espn_matches, nbc_all,
                   nbc_matches, bdl_injuries, aResult>>
    /\ UNCHANGED <<apiKey, cacheVars, resVars, fnVars>>

\* line 812: the call of _search_bdl_best_player(query)
AggResolveCall ==
    /\ apc = "resolve"
    /\ rpc = "off"
    /\ rName' = Strip(aName)
    /\ rpc' = "start"
    /\ UNCHANGED <<rTerms, rIdx, seen_ids, all_found, best_player, rResult, searched,
                   lastHadExact, returnedEver, firstSeen, rStatus>>
    /\ UNCHANGED <<apiKey, cacheVars, aggVars, fnVars>>

\* line 812: the resolver raised, and so does injuries_by_player
AggResolveRaised ==
    /\ apc = "resolve"
    /\ rpc = "raised"
    /\ apc' = "raised"
    /\ aStatus' = rStatus
    /\ UNCHANGED <<injUpstream, espnPage, nbcPage, cbsPage, aName, espn_all, espn_matches, nbc_all,
                   nbc_matches, cbs_all, cbs_matches, bdl_injuries, aResult, fetchLog>>
    /\ UNCHANGED <<apiKey, cacheVars, resVars, fnVars>>

\* lines 814-842: the resolver returned; with a best player, the call of
\* injuries_balldontlie_by_player_id (lines 252-273)
AggInjuries ==
    /\ apc = "resolve"
    /\ rpc = "done"
    /\ IF rResult.best = None
       THEN /\ bdl_injuries' = <<>>
            /\ apc' = "finish"
            /\ UNCHANGED <<aStatus, fetchLog, injUpstream>>
       ELSE \E o \in CallOutcomes(apiKey) :
                /\ fetchLog' =
                     IF SendsRequest(o)
                     THEN Append(fetchLog, [source |-> "balldontlie", outcome |-> o])
                     ELSE fetchLog
                /\ IF o = "ok"
                   THEN \E held \in InjuryUpstreams :
                            /\ injUpstream' = held
                            /\ bdl_injuries' =
                                 InjuriesOfPlayer(rResult.best[1].id, FirstPage(held))
                            /\ apc' = "finish"
                            /\ UNCHANGED aStatus
                   ELSE /\ apc' = "raised"
                        /\ aStatus' = StatusOf(o)
                        /\ UNCHANGED <<bdl_injuries, injUpstream>>
    /\ UNCHANGED <<espnPage, nbcPage, cbsPage, aName, espn_all, espn_matches, nbc_all,
                   nbc_matches, cbs_all, cbs_matches, aResult>>
    /\ UNCHANGED <<apiKey, cacheVars, resVars, fnVars>>

\* lines 844-873
AggFinish ==
    /\ apc = "finish"
    /\ aResult' =
         [player_query |-> Strip(aName),
          aggregated |-> ComputeAggregatedStatus(bdl_injuries, espn_matches, cbs_matches,
                                                 nbc_matches),
          sources |->
            [balldontlie |->
               [matched_player |-> IF rResult.best = None THEN None
                                   ELSE Some(BdlPlayerInfo(rResult.best[1])),
                raw_search_count |-> Len(rResult.candidates),
                injuries |-> bdl_injuries],
             espn |-> [injuries |-> espn_matches, total_injuries_checked |-> Len(espn_all)],
             nbc |-> [injuries |-> nbc_matches, total_injuries_checked |-> Len(nbc_all)],
             cbs |-> [injuries |-> cbs_matches, total_injuries_checked |-> Len(cbs_all)]]]
    /\ apc' = "done"
    /\ UNCHANGED <<injUpstream, espnPage, nbcPage, cbsPage, aName, espn_all, espn_matches, nbc_all,
                   nbc_matches, cbs_all, cbs_matches, bdl_injuries, aStatus, fetchLog>>
    /\ UNCHANGED <<apiKey, cacheVars, resVars, fnVars>>

\* one call of injuries_by_player, for any of the names and upstream pages
InitAgg ==
    /\ apiKey \in BOOLEAN
    /\ CacheOff
    /\ ResolverOff
    /\ espnPage \in EspnPages
    /\ nbcPage \in NbcPages
    /\ cbsPage \in CbsPages
    /\ aName \in AggNames
    /\ apc = "start"
    /\ espn_all = <<>>
    /\ espn_matches = <<>>
    /\ nbc_all = <<>>
    /\ nbc_matches = <<>>
    /\ cbs_all = <<>>
    /\ cbs_matches = <<>>
    /\ bdl_injuries = <<>>
    /\ aResult = <<>>
    /\ aStatus = 200
    /\ fetchLog = <<>>
    /\ injUpstream = <<>>
    /\ FnOff

NextAgg ==
    \/ AggStart
    \/ AggEspn
    \/ AggNbc
    \/ AggCbs
    \/ AggResolveCall
    \/ ResolveStart
    \/ ResolveSearch
    \/ ResolveFinish
    \/ AggResolveRaised
    \/ AggInjuries
    \/ AggFinish

SpecAgg == InitAgg /\ [][NextAgg]_vars

\* the place of a source in the fixed order of sources_with_info
SourceRank(src) ==
    CASE src = "balldontlie" -> 1 [] src = "espn" -> 2 [] src = "cbs" -> 3 [] src = "nbc" -> 4

SourceNames == {"balldontlie", "espn", "cbs", "nbc"}

\* C8: status is "flagged" exactly when some source has a record for the
\* player and "clear" otherwise; sources_with_info names exactly the sources
\* with a record, each once, in the fixed order balldontlie, espn, cbs, nbc.
C8_StatusAndSources ==
    apc = "done" =>
        LET swi == aResult.aggregated.sources_with_info
            Has(src) == aResult.sources[src].injuries # <<>>
        IN  /\ aResult.aggregated.status = "flagged" <=> \E src \in SourceNames : Has(src)
            /\ aResult.aggregated.status = "clear" <=> \A src \in SourceNames : ~Has(src)
            /\ \A src \in SourceNames : Has(src) <=> InSeq(src, swi)
            /\ \A i, j \in 1..Len(swi) : i < j => SourceRank(swi[i]) < SourceRank(swi[j])

\* all four sources have a record although ESPN, NBC and CBS were fetched first
C8_Witness ==
    /\ apc = "done"
    /\ aResult.aggregated.sources_with_info = <<"balldontlie", "espn", "cbs", "nbc">>
    /\ fetchLog[1].source = "espn"

\* a table of the page has exactly the wanted headers and a full row whose
\* name cell is the name and whose status cell is "Out"
ListsOut(page, wanted, name) ==
    \E t \in 1..Len(page) :
        /\ page[t].headers = wanted
        /\ \E r \in 1..Len(page[t].rows) :
            LET cells == page[t].rows[r]
            IN  /\ Len(cells) = 5
                /\ cells[IndexOf(IF wanted = EspnWanted THEN T_NAME ELSE T_Player, wanted)] = name
                /\ cells[IndexOf(IF wanted = EspnWanted THEN T_STATUS ELSE T_Injury_Status,
                                 wanted)] = T_Out

\* the Roster-API resolved the requested name to a player of that name
ResolvedAsRequested ==
    /\ rResult.best # None
    /\ BdlPlayerInfo(rResult.best[1]).full_name = Strip(aName)

\* the result is flagged, names the source, and carries an "Out" record under it
FlaggedBy(src) ==
    /\ aResult.aggregated.status = "flagged"
    /\ InSeq(src, aResult.aggregated.sources_with_info)
    /\ \E i \in 1..Len(aResult.sources[src].injuries) :
           aResult.sources[src].injuries[i].status = T_Out

\* C9: when the Roster-API resolves the requested player and the ESPN or the
\* CBS table lists a row for that player's name with status "Out", the result
\* is flagged, sources_with_info names that source, and the record under that
\* source has status "Out".
C9_ListedOutIsFlagged ==
    (apc = "done" /\ ResolvedAsRequested) =>
        /\ ListsOut(espnPage, EspnWanted, Strip(aName)) => FlaggedBy("espn")
        /\ ListsOut(cbsPage, CbsWanted, Strip(aName)) => FlaggedBy("cbs")

\* C10: a non-200 answer of the NBC page does not end injuries_by_player: the
\* call goes on past it, and a result it returns has no NBC injuries.
C10_NbcFailureIsSoft ==
    \A i \in 1..Len(fetchLog) :
        fetchLog[i] = [source |-> "nbc", outcome |-> "http_error"] =>
            /\ apc = "raised" => i < Len(fetchLog)
            /\ apc = "done" => aResult.sources.nbc.injuries = <<>>

\* C18: a failed fetch of the ESPN page, of the CBS page or of the injuries of
\* the Roster-API is the last fetch injuries_by_player sends: the call has
\* raised with the status of the failure (502 for a network exception) and
\* returned nothing, and after a failed ESPN or CBS fetch the resolver was never
\* called.  A search of the resolver that failed that way ends the call too:
\* no injuries are requested, nothing is returned, and the call raises with
\* the resolver's status.
C18_StrictFailureAborts ==
    /\ \A i \in 1..Len(fetchLog) :
          (fetchLog[i].source \in {"espn", "cbs", "balldontlie"}
               /\ fetchLog[i].outcome \in {"network_error", "http_error"}) =>
              /\ i = Len(fetchLog)
              /\ apc = "raised"
              /\ aStatus = IF fetchLog[i].outcome = "network_error" THEN 502 ELSE 503
              /\ aResult = <<>>
              /\ fetchLog[i].source \in {"espn", "cbs"} => (rpc = "off" /\ searched = <<>>)
    /\ (rpc = "raised" /\ rStatus \in {502, 503}) =>
          /\ apc \in {"resolve", "raised"}
          /\ apc = "raised" => aStatus = rStatus
          /\ aResult = <<>>
          /\ \A i \in 1..Len(fetchLog) : fetchLog[i].source # "balldontlie"

\* the CBS fetch met a network exception after ESPN and NBC had given records
\* for the player: the call raised 502 and the Roster-API was never asked
C18_Witness ==
    /\ apc = "raised"
    /\ aStatus = 502
    /\ Len(fetchLog) = 3
    /\ fetchLog[3] = [source |-> "cbs", outcome |-> "network_error"]
    /\ espn_matches # <<>>
    /\ nbc_matches # <<>>
    /\ rpc = "off"

\* a request of this call of injuries_by_player has failed: a page fetch or
\* the injuries request in fetchLog, or the last search of the resolver
RequestFailed ==
    \/ \E i \in 1..Len(fetchLog) : fetchLog[i].outcome # "ok"
    \/ rpc = "raised" /\ rStatus \in {502, 503}

\* C19: one call of a fetch operation (one step of the ESPN, NBC, CBS,
\* search or injuries fetch) sends at most one request, and once a request of
\* the user request has failed no further request is sent, to the same URL
\* or to any other.
C19_NoRetry ==
    [][/\ Len(fetchLog') + Len(searched') <= Len(fetchLog) + Len(searched) + 1
       /\ RequestFailed => (fetchLog' = fetchLog /\ searched' = searched)]_vars

\* the second search of the resolver met a network exception: the call raised
\* 502 with five requests sent in all
C19_Witness ==
    /\ apc = "raised"
    /\ rpc = "raised"
    /\ aStatus = 502
    /\ Len(fetchLog) = 3
    /\ Len(searched) = 2

\* C21: every Roster-API injury record returned for the resolved player carries
\* exactly the requested player id, and the records are the items of the
\* response whose player id is the requested one, whatever their names: an
\* item of another player of the same name is left out
C21_OnlyRequestedId ==
    (apc \in {"finish", "done"} /\ rResult.best # None) =>
        LET id == rResult.best[1].id
            page == FirstPage(injUpstream)
        IN  /\ \A i \in 1..Len(bdl_injuries) : bdl_injuries[i].player_id = id
            /\ Len(bdl_injuries) = Cardinality({k \in 1..Len(page) : page[k].player.id = id})
            /\ apc = "done" => aResult.sources.balldontlie.injuries = bdl_injuries

\* PlayerAb was resolved, the response held an injury of PlayerAb and one of
\* its namesake, and one record was returned
C21_Witness ==
    /\ apc = "done"
    /\ rResult.best = Some(PlayerAb)
    /\ \E j, k \in 1..Len(FirstPage(injUpstream)) :
            /\ injUpstream[j].player = PlayerAb
            /\ injUpstream[k].player = PlayerAbTwin
    /\ Len(aResult.sources.balldontlie.injuries) = 1

\* C26: for a resolved player, the Roster-API injuries reported by
\* injuries_by_player include every injury record the upstream holds for that
\* player id, also when the upstream list is longer than one page
C26_AllUpstreamInjuriesReported ==
    (apc = "done" /\ rResult.best # None) =>
        LET id == rResult.best[1].id
            reported == aResult.sources.balldontlie.injuries
            held == {k \in 1..Len(injUpstream) : injUpstream[k].player.id = id}
        IN  /\ \A k \in held :
                  \E i \in 1..Len(reported) : reported[i] = MapBalldontlieInjury(injUpstream[k])
            /\ Cardinality(held) <= Len(reported)

(***************************************************************************)
(* The pure functions of the source, each called once on its own on one of *)
(* a set of arguments: the two table adapters, the CBS name repair and the *)
(* name normalization.                                                     *)
(***************************************************************************)
\* largest number of tables of a page given to a table adapter
MaxTables == 2

\* a sequence without its k-th element
Without(seq, k) == [i \in 1..(Len(seq) - 1) |-> IF i < k THEN seq[i] ELSE seq[i + 1]]

\* the tables of a page: one without th cells, one per missing wanted header,
\* two with all wanted headers, and one with a sixth header before them
TablePool(wanted) ==
    LET RowOf(name) == IF wanted = EspnWanted THEN EspnRowOf(name) ELSE CbsRowOf(name)
    IN  {[headers |-> <<>>, rows |-> <<RowOf(T_x)>>]}
        \cup {[headers |-> Without(wanted, k), rows |-> <<RowOf(T_x)>>] : k \in 1..Len(wanted)}
        \cup {[headers |-> wanted, rows |-> <<RowOf(N_Ab)>>],
              [headers |-> wanted, rows |-> <<RowOf(wanted[1]), RowOf(N_aB), <<N_Ab, T_PG>>>>],
              [headers |-> <<T_x>> \o wanted, rows |-> <<RowOf(N_Ab)>>]}

EspnFnPages == UNION {[1..n -> TablePool(EspnWanted)] : n \in 0..MaxTables}
CbsFnPages == UNION {[1..n -> TablePool(CbsWanted)] : n \in 0..MaxTables}

\* parsed = _parse_espn_injuries(html)
CallParseEspn ==
    /\ fnpc = "call"
    /\ fnName = "_parse_espn_injuries"
    /\ fnOut' = ParseEspn(fnIn)
    /\ fnpc' = "done"
    /\ UNCHANGED <<fnName, fnIn>>
    /\ UNCHANGED <<apiKey, cacheVars, resVars, aggVars>>

\* parsed = _parse_cbs_injuries(html)
CallParseCbs ==
    /\ fnpc = "call"
    /\ fnName = "_parse_cbs_injuries"
    /\ fnOut' = ParseCbs(fnIn)
    /\ fnpc' = "done"
    /\ UNCHANGED <<fnName, fnIn>>
    /\ UNCHANGED <<apiKey, cacheVars, resVars, aggVars>>

\* the line groups an NBC page is put together from: two team headers, a
\* player block, a block whose position is not in the whitelist, a stray line
MaxSegments == 4

T_Nets == <<"N", "e", "t", "s">>
NbcHeader(team) == <<team, T_PLAYER, T_POS, T_DATE, T_INJURY>>
NbcBadBlock == <<N_aB, T_x, T_x, T_x, T_x>>
NbcSegments == {NbcHeader(T_Team), NbcHeader(T_Nets), NbcBlock(N_Ab), NbcBadBlock, <<T_x>>}

RECURSIVE Concat(_)
Concat(seqs) == IF seqs = <<>> THEN <<>> ELSE Head(seqs) \o Concat(Tail(seqs))

\* the non-empty lines of a page (line 475): a menu line and the "Injuries"
\* line, or the "INJURIES" line, or neither, and the line groups after it
NbcHeads == {<<T_x, T_Injuries>>, <<T_INJURIES>>, <<T_x>>}
NbcFnPages ==
    {head \o Concat(segs) :
        head \in NbcHeads, segs \in UNION {[1..n -> NbcSegments] : n \in 0..MaxSegments}}

\* parsed = _parse_nbc_injuries(html); the function has no raising path
CallParseNbc ==
    /\ fnpc = "call"
    /\ fnName = "_parse_nbc_injuries"
    /\ fnOut' = Parsed(ParseNbc(fnIn))
    /\ fnpc' = "done"
    /\ UNCHANGED <<fnName, fnIn>>
    /\ UNCHANGED <<apiKey, cacheVars, resVars, aggVars>>

\* name cells as line 652 hands them over, stripped by get_text(strip=True):
\* the strings over NameChars, and two longer ones
T_BOSJaylen_Brown ==
    <<"B", "O", "S", "J", "a", "y", "l", "e", "n", " ", "B", "r", "o", "w", "n">>
T_J_BrownJaylen_Brown ==
    <<"J", ".", " ", "B", "r", "o", "w", "n", "J", "a", "y", "l", "e", "n", " ", "B", "r", "o", "w", "n">>
NameCells == {s \in Names : Strip(s) = s} \cup {T_BOSJaylen_Brown, T_J_BrownJaylen_Brown}

\* name = _clean_cbs_player_name(raw_name)
CallCleanCbsPlayerName ==
    /\ fnpc = "call"
    /\ fnName = "_clean_cbs_player_name"
    /\ fnOut' = CleanCbsPlayerName(fnIn)
    /\ fnpc' = "done"
    /\ UNCHANGED <<fnName, fnIn>>
    /\ UNCHANGED <<apiKey, cacheVars, resVars, aggVars>>

\* the strings of at most n characters over a set of characters
Strs(chars, n) == UNION {[1..k -> chars] : k \in 0..n}

\* the generational suffixes, in lower case, in upper case and capitalised,
\* with and without a period
SuffixTokens ==
    {<<"j", "r">>, <<"s", "r">>, <<"i", "i">>, <<"i", "i", "i">>, <<"i", "v">>, <<"v">>}
SuffixSpellings ==
    LET cased == UNION {{t, UpperStr(t), <<UpperChar(t[1])>> \o Tail(t)} : t \in SuffixTokens}
    IN  cased \cup {t \o <<".">> : t \in cased}

\* the player dicts _normalize_full_name is called on: with a full_name over
\* a few characters, with first_name and last_name only, and with a full_name
\* that ends in a generational suffix
NormInputs ==
    {Player(NoneId, f, <<>>, <<>>) : f \in Strs({"a", "B", " ", "c'", "C'"}, MaxNameLen)}
    \cup {Player(NoneId, <<>>, f, l) : f, l \in Strs({"a", "B", " "}, MaxNameLen - 1)}
    \cup {Player(NoneId, b \o <<" ">> \o t, <<>>, <<>>) :
              b \in {<<"a">>, <<"a", " ", "B">>}, t \in SuffixSpellings}

\* _normalize_full_name(p)
CallNormalizeFullName ==
    /\ fnpc = "call"
    /\ fnName = "_normalize_full_name"
    /\ fnOut' = NormalizeFullName(fnIn)
    /\ fnpc' = "done"
    /\ UNCHANGED <<fnName, fnIn>>
    /\ UNCHANGED <<apiKey, cacheVars, resVars, aggVars>>

\* one call of one of the functions on one of its arguments
InitFn ==
    /\ apiKey = TRUE
    /\ CacheOff
    /\ ResolverOff
    /\ AggOff
    /\ \/ fnName = "_parse_espn_injuries" /\ fnIn \in EspnFnPages
       \/ fnName = "_parse_cbs_injuries" /\ fnIn \in CbsFnPages
       \/ fnName = "_parse_nbc_injuries" /\ fnIn \in NbcFnPages
       \/ fnName = "_clean_cbs_player_name" /\ fnIn \in NameCells
       \/ fnName = "_normalize_full_name" /\ fnIn \in NormInputs
    /\ fnOut = <<>>
    /\ fnpc = "call"

NextFn ==
    \/ CallParseEspn
    \/ CallParseCbs
    \/ CallParseNbc
    \/ CallCleanCbsPlayerName
    \/ CallNormalizeFullName

SpecFn == InitFn /\ [][NextFn]_vars

\* C12: a table adapter returns for a page what it returns for the page's
\* tables that have all the wanted headers, taken alone: a table that lacks a
\* wanted header adds no record and does not keep the adapter from the tables
\* around it.
C12_LackingTableIsSkipped ==
    (fnpc = "done" /\ fnName \in {"_parse_espn_injuries", "_parse_cbs_injuries"}) =>
        LET espn == fnName = "_parse_espn_injuries"
            wanted == IF espn THEN EspnWanted ELSE CbsWanted
            Complete(t) == AllIn(wanted, t.headers)
            others == SelectSeq(fnIn, Complete)
        IN  /\ fnOut = IF espn THEN ParseEspn(others) ELSE ParseCbs(others)
            /\ others = <<>> => fnOut = Parsed(<<>>)

\* a table without the STATUS header, then a table with all headers: the
\* adapter returns the one record of the second table
C12_Witness ==
    /\ fnpc = "done"
    /\ fnName = "_parse_espn_injuries"
    /\ Len(fnIn) = 2
    /\ fnIn[1].headers = Without(EspnWanted, 4)
    /\ fnIn[2].headers = EspnWanted
    /\ fnOut.ok
    /\ Len(fnOut.records) = 1
    /\ fnOut.records[1].player_name = N_Ab

\* the number of leading uppercase letters of a string
RECURSIVE UpperRun(_)
UpperRun(s) == IF s # <<>> /\ IsUpperChar(Head(s)) THEN 1 + UpperRun(Tail(s)) ELSE 0

\* the length of a team abbreviation glued before a capitalised name: the
\* leading uppercase letters but the last, when a lowercase letter follows them
AbbrLen(s) ==
    LET k == UpperRun(s)
    IN  IF k >= 2 /\ Len(s) > k /\ IsLowerChar(s[k + 1]) THEN k - 1 ELSE 0

\* a lowercase letter directly followed by an uppercase letter, at i-1 and i
Transition(s, i) == IsLowerChar(s[i - 1]) /\ IsUpperChar(s[i])

\* C13 as stated: a name cell with a team abbreviation glued before the
\* player's name gives the player's name alone, and a name cell without a
\* lowercase-to-uppercase transition is returned unchanged.
C13_Original ==
    (fnpc = "done" /\ fnName = "_clean_cbs_player_name") =>
        /\ AbbrLen(fnIn) > 0 => fnOut = SubSeq(fnIn, AbbrLen(fnIn) + 1, Len(fnIn))
        /\ (\A i \in 2..Len(fnIn) : ~Transition(fnIn, i)) => fnOut = fnIn

\* C13, amended: a name cell with a lowercase-to-uppercase transition gives the
\* text from the uppercase letter of its first such transition on, and a name
\* cell without such a transition, a glued all-uppercase abbreviation
\* included, is returned unchanged.
C13_CbsNameRepair ==
    (fnpc = "done" /\ fnName = "_clean_cbs_player_name") =>
        /\ \A i \in 2..Len(fnIn) :
              (Transition(fnIn, i) /\ \A j \in 2..(i - 1) : ~Transition(fnIn, j)) =>
                  fnOut = SubSeq(fnIn, i, Len(fnIn))
        /\ (\A i \in 2..Len(fnIn) : ~Transition(fnIn, i)) => fnOut = fnIn

\* "J. BrownJaylen Brown" has given "Jaylen Brown"
C13_Witness ==
    /\ fnpc = "done"
    /\ fnName = "_clean_cbs_player_name"
    /\ fnIn = T_J_BrownJaylen_Brown
    /\ fnOut = SubSeq(T_BOSJaylen_Brown, 4, 15)

\* a player dict with this full name and nothing else
Named(full) == Player(NoneId, full, <<>>, <<>>)

\* C14: normalizing a normalized name gives it back, through
\* _normalize_full_name as through the query normalization of line 726.
C14_NormalizeIdempotent ==
    (fnpc = "done" /\ fnName = "_normalize_full_name") =>
        /\ NormalizeFullName(Named(fnOut)) = fnOut
        /\ QueryNorm(fnOut) = fnOut

\* first_name "B " and last_name " a" have given "b a"
C14_Witness ==
    /\ fnpc = "done"
    /\ fnName = "_normalize_full_name"
    /\ fnIn = Player(NoneId, <<>>, <<"B", " ">>, <<" ", "a">>)
    /\ fnOut = <<"b", " ", "a">>

\* a token that is a generational suffix, in any case, with or without a period
IsSuffixToken(tok) ==
    LET low == LowerStr(tok)
        bare == IF low # <<>> /\ low[Len(low)] = "." THEN SubSeq(low, 1, Len(low) - 1) ELSE low
    IN  bare \in SuffixTokens

\* C15: a full name whose last token is a generational suffix normalizes to
\* what the name without that token normalizes to.
C15_SuffixInsensitive ==
    (fnpc = "done" /\ fnName = "_normalize_full_name" /\ fnIn.full_name # <<>>) =>
        LET toks == Split(fnIn.full_name)
        IN  (Len(toks) >= 2 /\ IsSuffixToken(toks[Len(toks)])) =>
                fnOut = NormalizeFullName(Named(JoinSpace(SubSeq(toks, 1, Len(toks) - 1))))

\* a string with the diacritics taken off its letters
Unaccent(s) ==
    [i \in 1..Len(s) |-> IF s[i] = "c'" THEN "c" ELSE IF s[i] = "C'" THEN "C" ELSE s[i]]

\* C16: a full name normalizes to what it normalizes to without its
\* diacritics, and to what it normalizes to in upper case and in lower case.
C16_DiacriticAndCaseInsensitive ==
    (fnpc = "done" /\ fnName = "_normalize_full_name" /\ fnIn.full_name # <<>>) =>
        /\ fnOut = NormalizeFullName(Named(Unaccent(fnIn.full_name)))
        /\ fnOut = NormalizeFullName(Named(UpperStr(fnIn.full_name)))
        /\ fnOut = NormalizeFullName(Named(LowerStr(fnIn.full_name)))

\* C22: the ESPN, CBS and NBC parsers are total: on every page they return a
\* list and never raise, and a page of another shape (no table with all the
\* wanted headers, no "Injuries" line) yields the empty list
C22_ParsersTotal ==
    (fnpc = "done" /\ fnName \in {"_parse_espn_injuries", "_parse_cbs_injuries",
                                   "_parse_nbc_injuries"}) =>
        /\ fnOut.ok
        /\ (fnName = "_parse_espn_injuries"
             /\ \A k \in 1..Len(fnIn) : ~AllIn(EspnWanted, fnIn[k].headers))
                => fnOut.records = <<>>
        /\ (fnName = "_parse_cbs_injuries"
             /\ \A k \in 1..Len(fnIn) : ~AllIn(CbsWanted, fnIn[k].headers))
                => fnOut.records = <<>>
        /\ (fnName = "_parse_nbc_injuries"
             /\ ~InSeq(T_Injuries, fnIn) /\ ~InSeq(T_INJURIES, fnIn))
                => fnOut.records = <<>>

\* the "Injuries" line of a page, 0 when there is none
InjuriesLine(lines) ==
    IF InSeq(T_Injuries, lines) THEN IndexOf(T_Injuries, lines)
    ELSE IF InSeq(T_INJURIES, lines) THEN IndexOf(T_INJURIES, lines)
    ELSE 0

\* five lines from line i on: a team name and the four column labels
IsHeaderAt(lines, i) ==
    /\ i + 4 <= Len(lines)
    /\ lines[i] \notin NbcHeaderTokens
    /\ lines[i + 1] \in {T_PLAYER, T_Player}
    /\ lines[i + 2] \in {T_POS, T_Pos}
    /\ lines[i + 3] \in {T_DATE, T_Date}
    /\ lines[i + 4] \in {T_INJURY, T_Injury}

\* five lines from line i on: a position of the whitelist on the second
\* line, no column label on the first four
IsBlockAt(lines, i) ==
    /\ i + 4 <= Len(lines)
    /\ lines[i + 1] \in NbcPositions
    /\ \A k \in 0..3 : lines[i + k] \notin NbcHeaderTokens

\* the block at line i follows the header at line m in steps of five lines,
\* with blocks only between them: the header is the most recent one
AlignedAfter(lines, m, i) ==
    /\ InjuriesLine(lines) > 0
    /\ m > InjuriesLine(lines)
    /\ IsHeaderAt(lines, m)
    /\ i > m
    /\ (i - m) % 5 = 0
    /\ \A k \in (m + 1)..i : (k - m) % 5 = 0 => IsBlockAt(lines, k)

NbcRecord(lines, i, team) ==
    [player_name |-> lines[i], position |-> lines[i + 1], date |-> lines[i + 2],
     injury |-> lines[i + 3], description |-> lines[i + 4], team |-> team, source |-> "nbc"]

CountOf(seq, x) == Cardinality({k \in 1..Len(seq) : seq[k] = x})

\* C23: in the NBC parser every aligned block after a detected team header
\* yields one record with the team of the most recent header, wherever it lies
\* up to and including the last five lines; every record is such a block after
\* a header, and no record has a position outside the whitelist
C23_AlignedBlocksYieldRecords ==
    (fnpc = "done" /\ fnName = "_parse_nbc_injuries") =>
        LET lines == fnIn
            out == fnOut.records
            Due(r) == {i \in 1..Len(lines) :
                          \E m \in 1..Len(lines) :
                              AlignedAfter(lines, m, i) /\ r = NbcRecord(lines, i, lines[m])}
            Blocks(r) == {i \in 1..Len(lines) :
                          /\ IsBlockAt(lines, i)
                          /\ \E m \in (InjuriesLine(lines) + 1)..(i - 5) :
                                IsHeaderAt(lines, m) /\ r = NbcRecord(lines, i, lines[m])}
        IN  /\ \A i \in 1..Len(lines) : \A m \in 1..Len(lines) :
                  AlignedAfter(lines, m, i) =>
                      LET r == NbcRecord(lines, i, lines[m])
                      IN  Cardinality(Due(r)) <= CountOf(out, r)
            /\ \A k \in 1..Len(out) :
                  /\ InjuriesLine(lines) > 0
                  /\ CountOf(out, out[k]) <= Cardinality(Blocks(out[k]))
                  /\ out[k].position \in NbcPositions

====
